---- MODULE Spec2Model ----
(***************************************************************************)
(* Canonicalization and semantic hashing of JSON values                    *)
(* (protocol/hashing/reference_implementations/rust/canonicalizer.rs).     *)
(*                                                                         *)
(* A serde_json Value is a record tagged by its variant.  An Object keeps  *)
(* its members as a sequence of (key, value) pairs with unique keys, in    *)
(* the order the map iterates them, so that a map that preserves insertion *)
(* order and a map that is always sorted are both covered.  Text is a      *)
(* sequence of one-character strings; Byte gives each character its UTF-8  *)
(* code (all characters of the model are ASCII).                           *)
(***************************************************************************)
EXTENDS Integers, Sequences, FiniteSets, TLC

VARIABLES
    pc,        \* "ready" before the call, "done" after it
    op,        \* the operation called
    data,      \* its first argument
    strict,    \* canonicalize's flag
    other,     \* canonically_equal's second argument
    expected,  \* verify_semantic_hash's expected hash
    fails,     \* how many calls of the serializer fail during the call
    result     \* what the call returned

vars == <<pc, op, data, strict, other, expected, fails, result>>

(***************************************************************************)
(* Constants of the program.                                               *)
(***************************************************************************)
HASH_ALGORITHM == "sha256"

ENCODING == "utf-8"

(***************************************************************************)
(* Bounds of the model.                                                    *)
(***************************************************************************)
\* longest array of one primitive variant that is enumerated
MaxArrLen == 3

\* most members of an enumerated object
MaxObjLen == 2

\* most consecutive serialization failures injected into one call
MaxFails == 3

(***************************************************************************)
(* Value model.                                                            *)
(***************************************************************************)
Null == [t |-> "Null"]

Bool(b) == [t |-> "Bool", b |-> b]

\* serde_json::Number is PosInt(u64), NegInt(i64) (always < 0) or Float(f64).
\* A float of the model is sign and magnitude in halves: (-1)^neg * h / 2.
PosInt(m) == [t |-> "Number", n |-> [k |-> "PosInt", m |-> m]]

NegInt(m) == [t |-> "Number", n |-> [k |-> "NegInt", m |-> m]]

Float(neg, h) == [t |-> "Number", n |-> [k |-> "Float", neg |-> neg, h |-> h]]

String(s) == [t |-> "String", s |-> s]

Array(a) == [t |-> "Array", a |-> a]

Object(m) == [t |-> "Object", m |-> m]

Member(k, v) == [k |-> k, v |-> v]

\* is_object that takes an array for an object
is_object_or_array(v) == v.t \in {"Object", "Array"}

is_object(v) == v.t = "Object"

type_str(v) ==
    CASE v.t = "Null" -> "null"
      [] v.t = "Bool" -> "bool"
      [] v.t = "Number" -> "number"
      [] v.t = "String" -> "string"
      [] v.t = "Array" -> "array"
      [] v.t = "Object" -> "object"

\* std::mem::discriminant of a Value: its variant, nothing of its payload
discriminant(v) == v.t

(***************************************************************************)
(* Bytes of the characters the model uses (UTF-8 = ASCII here).            *)
(***************************************************************************)
Byte(c) ==
    CASE c = "\"" -> 34 [] c = "," -> 44 [] c = "-" -> 45 [] c = "." -> 46
      [] c = "0" -> 48 [] c = "1" -> 49 [] c = "2" -> 50 [] c = "3" -> 51
      [] c = "4" -> 52 [] c = "5" -> 53 [] c = "6" -> 54 [] c = "7" -> 55
      [] c = "8" -> 56 [] c = "9" -> 57 [] c = ":" -> 58
      [] c = "[" -> 91 [] c = "\\" -> 92 [] c = "]" -> 93
      [] c = "a" -> 97 [] c = "b" -> 98 [] c = "c" -> 99 [] c = "d" -> 100
      [] c = "e" -> 101 [] c = "f" -> 102
      [] c = "l" -> 108 [] c = "n" -> 110 [] c = "r" -> 114 [] c = "s" -> 115
      [] c = "t" -> 116 [] c = "u" -> 117 [] c = "v" -> 118 [] c = "z" -> 122
      [] c = "{" -> 123 [] c = "}" -> 125

as_bytes(s) == [i \in 1..Len(s) |-> Byte(s[i])]

(***************************************************************************)
(* Orderings.                                                              *)
(***************************************************************************)
\* Ord for String / str: lexicographic on the bytes, a proper prefix first
RECURSIVE str_cmp(_, _)
str_cmp(s1, s2) ==
    IF s1 = <<>> /\ s2 = <<>> THEN "Equal"
    ELSE IF s1 = <<>> THEN "Less"
    ELSE IF s2 = <<>> THEN "Greater"
    ELSE IF Byte(Head(s1)) < Byte(Head(s2)) THEN "Less"
    ELSE IF Byte(Head(s1)) > Byte(Head(s2)) THEN "Greater"
    ELSE str_cmp(Tail(s1), Tail(s2))

\* Number::as_f64: always Some for the three representations; the value in
\* signed halves, with the sign of zero kept apart (exact for the integers of
\* the model, which are far below 2^53)
as_f64(n) ==
    CASE n.k = "PosInt" -> [neg |-> FALSE, h |-> 2 * n.m]
      [] n.k = "NegInt" -> [neg |-> TRUE, h |-> 2 * n.m]
      [] n.k = "Float" -> [neg |-> n.neg, h |-> n.h]

f64_signed(f) == IF f.neg THEN 0 - f.h ELSE f.h

\* f64::partial_cmp on finite values: numeric order, -0.0 equal to 0.0
partial_cmp(f1, f2) ==
    IF f64_signed(f1) < f64_signed(f2) THEN "Less"
    ELSE IF f64_signed(f1) > f64_signed(f2) THEN "Greater"
    ELSE "Equal"

\* bool comparison with TRUE before FALSE
bool_cmp_reversed(b1, b2) ==
    IF b1 = b2 THEN "Equal" ELSE IF b1 THEN "Less" ELSE "Greater"

bool_cmp(b1, b2) ==
    IF b1 = b2 THEN "Equal" ELSE IF b2 THEN "Less" ELSE "Greater"

\* the closure given to sort_by in deep_sort
sort_cmp(a, b) ==
    IF a.t = "String" /\ b.t = "String" THEN str_cmp(a.s, b.s)
    ELSE IF a.t = "Number" /\ b.t = "Number"
        THEN partial_cmp(as_f64(a.n), as_f64(b.n))
    ELSE IF a.t = "Bool" /\ b.t = "Bool" THEN bool_cmp(a.b, b.b)
    ELSE "Equal"

\* an unstable sort: x goes in front of the elements it ties with
RECURSIVE insert_sorted_unstable(_, _)
insert_sorted_unstable(x, s) ==
    IF s = <<>> THEN <<x>>
    ELSE IF sort_cmp(x, Head(s)) # "Greater" THEN <<x>> \o s
    ELSE <<Head(s)>> \o insert_sorted_unstable(x, Tail(s))

\* slice::sort_by is stable: x goes behind every element not greater than it
RECURSIVE insert_sorted(_, _)
insert_sorted(x, s) ==
    IF s = <<>> THEN <<x>>
    ELSE IF sort_cmp(x, Head(s)) = "Less" THEN <<x>> \o s
    ELSE <<Head(s)>> \o insert_sorted(x, Tail(s))

RECURSIVE sort_by(_)
sort_by(s) ==
    IF s = <<>> THEN <<>>
    ELSE insert_sorted(s[Len(s)], sort_by(SubSeq(s, 1, Len(s) - 1)))

\* BTreeMap<String, Value>: insert puts a member at its key's place (keys of
\* a Map are unique, so no insert replaces an earlier one)
RECURSIVE btree_insert(_, _)
btree_insert(e, s) ==
    IF s = <<>> THEN <<e>>
    ELSE IF str_cmp(e.k, Head(s).k) = "Less" THEN <<e>> \o s
    ELSE IF str_cmp(e.k, Head(s).k) = "Equal" THEN <<e>> \o Tail(s)
    ELSE <<Head(s)>> \o btree_insert(e, Tail(s))

\* a map that keeps the insertion order
btree_collect_unsorted(m) == m

RECURSIVE btree_collect(_)
btree_collect(m) ==
    IF m = <<>> THEN <<>>
    ELSE btree_insert(m[Len(m)], btree_collect(SubSeq(m, 1, Len(m) - 1)))

(***************************************************************************)
(* deep_sort                                                               *)
(***************************************************************************)
is_primitive(v) == v.t \in {"String", "Number", "Bool", "Null"}

RECURSIVE deep_sort(_)
deep_sort(value) ==
    IF value.t = "Object"
    THEN Object(btree_collect(
             [i \in 1..Len(value.m) |->
                 Member(value.m[i].k, deep_sort(value.m[i].v))]))
    ELSE IF value.t = "Array"
    THEN LET arr == value.a
             all_primitives == \A i \in 1..Len(arr) : is_primitive(arr[i])
             mapped == [i \in 1..Len(arr) |-> deep_sort(arr[i])]
         IN  IF all_primitives /\ Len(arr) > 0
             THEN LET first_type == discriminant(arr[1])
                      all_same_type ==
                          \A i \in 1..Len(arr) : discriminant(arr[i]) = first_type
                  IN  IF all_same_type
                      THEN Array(sort_by(mapped))
                      ELSE Array(mapped)
             ELSE Array(mapped)
    ELSE value

(***************************************************************************)
(* Serialization: serde_json::to_string / Display for Value (compact).     *)
(***************************************************************************)
Digit(d) ==
    CASE d = 0 -> "0" [] d = 1 -> "1" [] d = 2 -> "2" [] d = 3 -> "3"
      [] d = 4 -> "4" [] d = 5 -> "5" [] d = 6 -> "6" [] d = 7 -> "7"
      [] d = 8 -> "8" [] d = 9 -> "9"

\* itoa: decimal digits of an unsigned integer, no leading zeros
RECURSIVE itoa(_)
itoa(m) == IF m < 10 THEN <<Digit(m)>> ELSE itoa(m \div 10) \o <<Digit(m % 10)>>

\* Number's Serialize: integers through itoa, floats through ryu's shortest
\* form, which keeps the sign of zero and always writes a fraction
format_number(n) ==
    CASE n.k = "PosInt" -> itoa(n.m)
      [] n.k = "NegInt" -> <<"-">> \o itoa(n.m)
      [] n.k = "Float" ->
            (IF n.neg THEN <<"-">> ELSE <<>>) \o itoa(n.h \div 2)
                \o <<".">> \o (IF n.h % 2 = 0 THEN <<"0">> ELSE <<"5">>)

\* format_escaped_str: quotes around the text, a backslash before each
\* quote and each backslash (the model has no control characters)
RECURSIVE escape_chars(_)
escape_chars(s) ==
    IF s = <<>> THEN <<>>
    ELSE (IF Head(s) \in {"\"", "\\"} THEN <<"\\", Head(s)>> ELSE <<Head(s)>>)
             \o escape_chars(Tail(s))

format_escaped_str(s) == <<"\"">> \o escape_chars(s) \o <<"\"">>

\* the items of a sequence of texts, with a comma between neighbours
RECURSIVE join_comma(_)
join_comma(parts) ==
    IF parts = <<>> THEN <<>>
    ELSE IF Len(parts) = 1 THEN parts[1]
    ELSE parts[1] \o <<",">> \o join_comma(Tail(parts))

\* the compact text of a value, members and elements in the order held
RECURSIVE to_json(_)
to_json(v) ==
    CASE v.t = "Null" -> <<"n", "u", "l", "l">>
      [] v.t = "Bool" -> (IF v.b THEN <<"t", "r", "u", "e">>
                                 ELSE <<"f", "a", "l", "s", "e">>)
      [] v.t = "Number" -> format_number(v.n)
      [] v.t = "String" -> format_escaped_str(v.s)
      [] v.t = "Array" ->
            <<"[">> \o join_comma([i \in 1..Len(v.a) |-> to_json(v.a[i])])
                \o <<"]">>
      [] v.t = "Object" ->
            <<"{">> \o join_comma([i \in 1..Len(v.m) |->
                          format_escaped_str(v.m[i].k) \o <<":">>
                              \o to_json(v.m[i].v)])
                \o <<"}">>

\* Results
Ok(x) == [ok |-> TRUE, val |-> x]

Err(kind, msg) == [ok |-> FALSE, kind |-> kind, msg |-> msg]

\* serde_json::to_string: the text, or an error when the serializer fails
\* (failing tells whether this call of the serializer fails)
to_string(v, failing) ==
    IF failing THEN Err("serde_json::Error", "serialization failed")
    ELSE Ok(to_json(v))

(***************************************************************************)
(* canonicalize                                                            *)
(***************************************************************************)
\* Value::String(v.to_string()) for every top-level member
stringify_members(map) ==
    [i \in 1..Len(map) |-> Member(map[i].k, String(to_json(map[i].v)))]

\* the key "value" of the wrapper object
ValueKey == <<"v", "a", "l", "u", "e">>

\* canonicalize(data, strict) when the next nfail calls of the serializer
\* fail and every later one succeeds
RECURSIVE canonicalize_with(_, _, _)
canonicalize_with(d, s, nfail) ==
    IF ~is_object(d)
    THEN IF s
         THEN Err("CanonicalizationError",
                  <<"Input must be an object, got", type_str(d)>>)
         ELSE canonicalize_with(Object(<<Member(ValueKey, d)>>), FALSE, nfail)
    ELSE LET sorted_data == deep_sort(d)
             r == to_string(sorted_data, nfail > 0)
         IN  IF r.ok
             THEN IF r.val = <<>>
                  THEN Err("CanonicalizationError",
                           "Failed to produce canonical JSON string")
                  ELSE Ok(r.val)
             ELSE IF s
                  THEN Err("CanonicalizationError", "Failed to canonicalize data")
                  ELSE canonicalize_with(Object(stringify_members(d.m)),
                                         FALSE, nfail - 1)

\* the serializer of a Value does not fail
canonicalize(d, s) == canonicalize_with(d, s, 0)

(***************************************************************************)
(* semantic_hash, verify_semantic_hash, canonically_equal                  *)
(***************************************************************************)
\* Sha256 then format!("{:x}"): the digest is kept symbolic, one digest per
\* byte sequence (SHA-256 taken as collision-free)
Sha256Hex(bytes) == [alg |-> HASH_ALGORITHM, of |-> bytes]

\* hashing that falls back to the lenient canonical form
semantic_hash_lenient(d) ==
    LET c == canonicalize(d, FALSE)
    IN  IF ~c.ok THEN c
        ELSE Ok(Sha256Hex(as_bytes(c.val)))

semantic_hash(d) ==
    LET c == canonicalize(d, TRUE)
    IN  IF ~c.ok THEN c
        ELSE Ok(Sha256Hex(as_bytes(c.val)))

\* verification that reports a hashing failure as a mismatch
verify_semantic_hash_swallowing(d, expected_hash) ==
    LET actual_hash == semantic_hash(d)
    IN  IF ~actual_hash.ok THEN Ok(FALSE)
        ELSE Ok(actual_hash.val = expected_hash)

verify_semantic_hash(d, expected_hash) ==
    LET actual_hash == semantic_hash(d)
    IN  IF ~actual_hash.ok THEN actual_hash
        ELSE Ok(actual_hash.val = expected_hash)

\* equality on the lenient canonical forms
canonically_equal_lenient(data1, data2) ==
    LET c1 == canonicalize(data1, FALSE)
        c2 == canonicalize(data2, FALSE)
    IN  IF c1.ok /\ c2.ok THEN c1.val = c2.val ELSE FALSE

canonically_equal(data1, data2) ==
    LET c1 == canonicalize(data1, TRUE)
        c2 == canonicalize(data2, TRUE)
    IN  IF c1.ok /\ c2.ok THEN c1.val = c2.val ELSE FALSE

(***************************************************************************)
(* Parsing a JSON text back into a Value (the caller's parser; no          *)
(* whitespace, no control characters, no exponents in the model).          *)
(***************************************************************************)
NoParse == [ok |-> FALSE]

Parsed(v, rest) == [ok |-> TRUE, v |-> v, rest |-> rest]

DigitChars == {"0", "1", "2", "3", "4", "5", "6", "7", "8", "9"}

DigitVal(c) == Byte(c) - 48

has_prefix(s, p) == Len(s) >= Len(p) /\ SubSeq(s, 1, Len(p)) = p

drop(s, n) == SubSeq(s, n + 1, Len(s))

\* the longest run of digits at the front of s, as [m, len]
RECURSIVE scan_digits(_, _, _)
scan_digits(s, acc, n) ==
    IF s # <<>> /\ Head(s) \in DigitChars
    THEN scan_digits(Tail(s), 10 * acc + DigitVal(Head(s)), n + 1)
    ELSE [m |-> acc, len |-> n]

\* a number: an integer without fraction is PosInt or NegInt, except "-0",
\* which is the float -0.0; with a fraction it is a Float (the fractions of
\* the model are .0 and .5)
parse_number(s) ==
    LET neg == s # <<>> /\ Head(s) = "-"
        s1 == IF neg THEN Tail(s) ELSE s
        ip == scan_digits(s1, 0, 0)
        s2 == drop(s1, ip.len)
        leading_zero == ip.len > 1 /\ Head(s1) = "0"
    IN  IF ip.len = 0 \/ leading_zero THEN NoParse
        ELSE IF s2 # <<>> /\ Head(s2) = "."
        THEN IF Len(s2) >= 2 /\ s2[2] \in {"0", "5"}
                  /\ (Len(s2) = 2 \/ s2[3] \notin DigitChars)
             THEN Parsed(Float(neg, 2 * ip.m + (IF s2[2] = "5" THEN 1 ELSE 0)),
                         drop(s2, 2))
             ELSE NoParse
        ELSE IF neg
        THEN IF ip.m = 0 THEN Parsed(Float(TRUE, 0), s2)
             ELSE Parsed(NegInt(ip.m), s2)
        ELSE Parsed(PosInt(ip.m), s2)

\* the text after an opening quote, up to the closing quote, unescaped
RECURSIVE parse_str_body(_, _)
parse_str_body(s, acc) ==
    IF s = <<>> THEN NoParse
    ELSE IF Head(s) = "\"" THEN Parsed(acc, Tail(s))
    ELSE IF Head(s) = "\\"
    THEN IF Len(s) >= 2 /\ s[2] \in {"\"", "\\"}
         THEN parse_str_body(drop(s, 2), Append(acc, s[2]))
         ELSE NoParse
    ELSE parse_str_body(Tail(s), Append(acc, Head(s)))

\* a parsed member enters the map: a repeated key replaces the value held
map_insert(m, k, v) ==
    IF \E i \in 1..Len(m) : m[i].k = k
    THEN [i \in 1..Len(m) |-> IF m[i].k = k THEN Member(k, v) ELSE m[i]]
    ELSE Append(m, Member(k, v))

RECURSIVE parse_value(_)
RECURSIVE parse_elements(_, _)
RECURSIVE parse_members(_, _)

parse_value(s) ==
    IF s = <<>> THEN NoParse
    ELSE IF has_prefix(s, <<"n", "u", "l", "l">>) THEN Parsed(Null, drop(s, 4))
    ELSE IF has_prefix(s, <<"t", "r", "u", "e">>)
        THEN Parsed(Bool(TRUE), drop(s, 4))
    ELSE IF has_prefix(s, <<"f", "a", "l", "s", "e">>)
        THEN Parsed(Bool(FALSE), drop(s, 5))
    ELSE IF Head(s) = "\""
        THEN LET r == parse_str_body(Tail(s), <<>>)
             IN  IF r.ok THEN Parsed(String(r.v), r.rest) ELSE NoParse
    ELSE IF Head(s) = "["
        THEN IF Len(s) >= 2 /\ s[2] = "]" THEN Parsed(Array(<<>>), drop(s, 2))
             ELSE parse_elements(Tail(s), <<>>)
    ELSE IF Head(s) = "{"
        THEN IF Len(s) >= 2 /\ s[2] = "}" THEN Parsed(Object(<<>>), drop(s, 2))
             ELSE parse_members(Tail(s), <<>>)
    ELSE IF Head(s) = "-" \/ Head(s) \in DigitChars THEN parse_number(s)
    ELSE NoParse

parse_elements(s, acc) ==
    LET r == parse_value(s)
    IN  IF ~r.ok \/ r.rest = <<>> THEN NoParse
        ELSE IF Head(r.rest) = ","
            THEN parse_elements(Tail(r.rest), Append(acc, r.v))
        ELSE IF Head(r.rest) = "]"
            THEN Parsed(Array(Append(acc, r.v)), Tail(r.rest))
        ELSE NoParse

parse_members(s, acc) ==
    IF s = <<>> \/ Head(s) # "\"" THEN NoParse
    ELSE LET k == parse_str_body(Tail(s), <<>>)
         IN  IF ~k.ok \/ k.rest = <<>> \/ Head(k.rest) # ":" THEN NoParse
             ELSE LET r == parse_value(Tail(k.rest))
                  IN  IF ~r.ok \/ r.rest = <<>> THEN NoParse
                      ELSE IF Head(r.rest) = ","
                          THEN parse_members(Tail(r.rest),
                                             map_insert(acc, k.v, r.v))
                      ELSE IF Head(r.rest) = "}"
                          THEN Parsed(Object(map_insert(acc, k.v, r.v)),
                                      Tail(r.rest))
                      ELSE NoParse

\* serde_json::from_str: one value and nothing after it
from_str(s) ==
    LET r == parse_value(s)
    IN  IF r.ok /\ r.rest = <<>> THEN Ok(r.v)
        ELSE Err("serde_json::Error", "syntax")

(***************************************************************************)
(* Inputs.                                                                 *)
(***************************************************************************)
\* 2 and 2.0, and 0.0 and -0.0, are equal as f64; 10 is before 2 as text
Nums ==
    {PosInt(2), PosInt(10), NegInt(1), Float(FALSE, 0), Float(TRUE, 0),
     Float(FALSE, 1), Float(FALSE, 4)}

Strs == {<<>>, <<"a">>, <<"a", "b">>, <<"\"">>}

Keys == {<<"a">>, <<"a", "b">>, <<"b">>}

Prims ==
    {Null, Bool(FALSE), Bool(TRUE)} \cup Nums \cup {String(x) : x \in Strs}

SeqsUpTo(S, n) == UNION {[1..k -> S] : k \in 0..n}

\* the arrays of one primitive variant, up to MaxArrLen elements
HomArrays ==
    {Array(x) : x \in SeqsUpTo(Nums, MaxArrLen)
                      \cup SeqsUpTo({String(y) : y \in Strs}, MaxArrLen)
                      \cup SeqsUpTo({Bool(FALSE), Bool(TRUE)}, MaxArrLen)
                      \cup SeqsUpTo({Null}, MaxArrLen)}

ObjBA == Object(<<Member(<<"b">>, PosInt(1)),
                  Member(<<"a">>, Array(<<PosInt(2), PosInt(1)>>))>>)

\* member values and array elements of the nested inputs
NestVals ==
    {Null, PosInt(1), String(<<"b">>),
     Array(<<>>), Array(<<PosInt(2), PosInt(1)>>),
     Array(<<PosInt(1), PosInt(2)>>),
     Array(<<Float(FALSE, 2), PosInt(1)>>),
     Array(<<ObjBA, Array(<<PosInt(2), PosInt(1)>>)>>),
     ObjBA}

\* arrays that are mixed or hold arrays and objects
MixedArrays == {Array(x) : x \in SeqsUpTo(NestVals, 2)}

\* the objects of up to MaxObjLen members, in every insertion order
MembersUpTo(n) ==
    {m \in UNION {[1..k -> [k : Keys, v : NestVals]] : k \in 0..n} :
        \A i, j \in 1..Len(m) : i # j => m[i].k # m[j].k}

Objects == {Object(m) : m \in MembersUpTo(MaxObjLen)}

\* the object of test_nested_structures
NestedTestVector ==
    Object(<<
        Member(<<"z">>, Array(<<PosInt(3), PosInt(1), PosInt(2)>>)),
        Member(<<"a">>, Object(<<
            Member(<<"c">>, PosInt(3)),
            Member(<<"a">>, PosInt(1)),
            Member(<<"b">>, Object(<<Member(<<"f">>, PosInt(6)),
                                     Member(<<"d">>, PosInt(4)),
                                     Member(<<"e">>, PosInt(5))>>))>>)),
        Member(<<"b">>, PosInt(2))>>)

Inputs ==
    Prims \cup MixedArrays
        \cup {Array(<<PosInt(2), PosInt(1)>>), Array(<<String(<<"b">>), String(<<"a">>)>>)}
        \cup {Object(<<Member(<<"a">>, x)>>) : x \in HomArrays}
        \cup Objects \cup {NestedTestVector}

\* a value with the members of every object and the elements of every
\* array in it in the opposite order
RECURSIVE mirrored(_)
mirrored(v) ==
    IF v.t = "Object"
    THEN Object([i \in 1..Len(v.m) |->
                    Member(v.m[Len(v.m) + 1 - i].k,
                           mirrored(v.m[Len(v.m) + 1 - i].v))])
    ELSE IF v.t = "Array"
    THEN Array([i \in 1..Len(v.a) |-> mirrored(v.a[Len(v.a) + 1 - i])])
    ELSE v

TestObject == Object(<<Member(<<"a">>, PosInt(1))>>)

\* second arguments tried with a first argument
Companions(v) == {v, mirrored(v), TestObject, PosInt(1)}

NotAHash == [alg |-> "none", of |-> <<>>]

ExpectedFor(v) ==
    {semantic_hash(w).val : w \in {x \in Companions(v) : semantic_hash(x).ok}}
        \cup {NotAHash}

(***************************************************************************)
(* The calls.                                                              *)
(***************************************************************************)
NoValue == Null

NoResult == [ok |-> FALSE, kind |-> "none", msg |-> "not called"]

Init ==
    /\ pc = "ready"
    /\ op = "none"
    /\ data \in Inputs
    /\ strict = FALSE
    /\ other = NoValue
    /\ expected = NotAHash
    /\ fails = 0
    /\ result = NoResult

CallCanonicalize ==
    /\ pc = "ready"
    /\ \E s \in BOOLEAN :
        /\ strict' = s
        /\ result' = canonicalize(data, s)
    /\ op' = "canonicalize"
    /\ pc' = "done"
    /\ UNCHANGED <<data, other, expected, fails>>

CallSemanticHash ==
    /\ pc = "ready"
    /\ result' = semantic_hash(data)
    /\ op' = "semantic_hash"
    /\ pc' = "done"
    /\ UNCHANGED <<data, strict, other, expected, fails>>

CallVerifySemanticHash ==
    /\ pc = "ready"
    /\ \E e \in ExpectedFor(data) :
        /\ expected' = e
        /\ result' = verify_semantic_hash(data, e)
    /\ op' = "verify_semantic_hash"
    /\ pc' = "done"
    /\ UNCHANGED <<data, strict, other, fails>>

CallCanonicallyEqual ==
    /\ pc = "ready"
    /\ \E w \in Companions(data) :
        /\ other' = w
        /\ result' = canonically_equal(data, w)
    /\ op' = "canonically_equal"
    /\ pc' = "done"
    /\ UNCHANGED <<data, strict, expected, fails>>

\* canonicalize while the serializer fails nf times in a row
CallCanonicalizeFailing ==
    /\ pc = "ready"
    /\ \E s \in BOOLEAN, nf \in 1..MaxFails :
        /\ strict' = s
        /\ fails' = nf
        /\ result' = canonicalize_with(data, s, nf)
    /\ op' = "canonicalize"
    /\ pc' = "done"
    /\ UNCHANGED <<data, other, expected>>

Next ==
    \/ CallCanonicalize
    \/ CallSemanticHash
    \/ CallVerifySemanticHash
    \/ CallCanonicallyEqual

Spec == Init /\ [][Next]_vars

NextFallback ==
    \/ CallCanonicalize
    \/ CallCanonicalizeFailing

SpecFallback == Init /\ [][NextFallback]_vars

(***************************************************************************)
(* Helpers of the properties.                                              *)
(***************************************************************************)
Called(o) == pc = "done" /\ op = o

\* the orders of a sequence
PermSeqs(q) ==
    {[i \in 1..Len(q) |-> q[p[i]]] : p \in Permutations(1..Len(q))}

\* the sequences that take their i-th item from the i-th set
Product(sets) ==
    {f \in [1..Len(sets) -> UNION {sets[i] : i \in 1..Len(sets)}] :
        \A i \in 1..Len(sets) : f[i] \in sets[i]}

\* v with the members of every object in it in every insertion order
RECURSIVE KeyPerms(_)
KeyPerms(v) ==
    IF v.t = "Object"
    THEN {Object(q) :
            q \in UNION {PermSeqs([i \in 1..Len(v.m) |-> Member(v.m[i].k, f[i])]) :
                           f \in Product([i \in 1..Len(v.m) |-> KeyPerms(v.m[i].v)])}}
    ELSE IF v.t = "Array"
    THEN {Array(f) : f \in Product([i \in 1..Len(v.a) |-> KeyPerms(v.a[i])])}
    ELSE {v}

IsHomogeneous(v) ==
    /\ v.t = "Array"
    /\ Len(v.a) > 0
    /\ \A i \in 1..Len(v.a) : v.a[i].t \in {"Null", "Bool", "Number", "String"}
    /\ \A i \in 1..Len(v.a) : v.a[i].t = v.a[1].t

\* v with every array of one primitive variant in it in every order
RECURSIVE ArrPerms(_)
ArrPerms(v) ==
    IF v.t = "Object"
    THEN {Object([i \in 1..Len(v.m) |-> Member(v.m[i].k, f[i])]) :
            f \in Product([i \in 1..Len(v.m) |-> ArrPerms(v.m[i].v)])}
    ELSE IF IsHomogeneous(v) THEN {Array(q) : q \in PermSeqs(v.a)}
    ELSE IF v.t = "Array"
    THEN {Array(f) : f \in Product([i \in 1..Len(v.a) |-> ArrPerms(v.a[i])])}
    ELSE {v}

\* PartialEq of Value: objects whatever the order of their members, floats
\* by value (so 0.0 equals -0.0), an integer never equal to a float
RECURSIVE value_eq(_, _)
value_eq(x, y) ==
    IF x.t # y.t THEN FALSE
    ELSE IF x.t = "Object"
    THEN /\ Len(x.m) = Len(y.m)
         /\ \A i \in 1..Len(x.m) : \E j \in 1..Len(y.m) :
                x.m[i].k = y.m[j].k /\ value_eq(x.m[i].v, y.m[j].v)
    ELSE IF x.t = "Array"
    THEN /\ Len(x.a) = Len(y.a)
         /\ \A i \in 1..Len(x.a) : value_eq(x.a[i], y.a[i])
    ELSE IF x.t = "Number" /\ x.n.k = "Float" /\ y.n.k = "Float"
    THEN x.n.h = y.n.h /\ (x.n.neg = y.n.neg \/ x.n.h = 0)
    ELSE x = y

\* the reference order of the primitives: strings by their bytes, numbers by
\* their value, FALSE before TRUE
RefStrLeq(s1, s2) ==
    \E k \in 0..Len(s1) :
        /\ k <= Len(s2)
        /\ \A i \in 1..k : s1[i] = s2[i]
        /\ \/ k = Len(s1)
           \/ k < Len(s2) /\ Byte(s1[k + 1]) < Byte(s2[k + 1])

RefTwice(n) ==
    CASE n.k = "PosInt" -> 2 * n.m
      [] n.k = "NegInt" -> 0 - 2 * n.m
      [] n.k = "Float" -> IF n.neg THEN 0 - n.h ELSE n.h

RefLeq(x, y) ==
    CASE x.t = "String" -> RefStrLeq(x.s, y.s)
      [] x.t = "Number" -> RefTwice(x.n) <= RefTwice(y.n)
      [] x.t = "Bool" -> (x.b => y.b)
      [] x.t = "Null" -> TRUE

Count(q, x) == Cardinality({i \in 1..Len(q) : q[i] = x})

SameMultiset(p, q) ==
    /\ Len(p) = Len(q)
    /\ \A i \in 1..Len(p) : Count(p, p[i]) = Count(q, p[i])

\* w is v in the reference order of the design
RECURSIVE RefSorted(_, _)
RefSorted(v, w) ==
    IF v.t = "Object"
    THEN /\ w.t = "Object"
         /\ Len(w.m) = Len(v.m)
         /\ \A i \in 1..(Len(w.m) - 1) :
                w.m[i].k # w.m[i + 1].k /\ RefStrLeq(w.m[i].k, w.m[i + 1].k)
         /\ \A i \in 1..Len(v.m) : \E j \in 1..Len(w.m) :
                w.m[j].k = v.m[i].k /\ RefSorted(v.m[i].v, w.m[j].v)
    ELSE IF IsHomogeneous(v)
    THEN /\ w.t = "Array"
         /\ SameMultiset(v.a, w.a)
         /\ \A i \in 1..(Len(w.a) - 1) : RefLeq(w.a[i], w.a[i + 1])
    ELSE IF v.t = "Array"
    THEN /\ w.t = "Array"
         /\ Len(w.a) = Len(v.a)
         /\ \A i \in 1..Len(v.a) : RefSorted(v.a[i], w.a[i])
    ELSE w = v

\* the canonical texts of the elements of a sequence
ElementTexts(q) == [i \in 1..Len(q) |-> to_json(deep_sort(q[i]))]

IsObj(v) == v.t = "Object"

Wrapped(v) == Object(<<Member(<<"v", "a", "l", "u", "e">>, v)>>)

(***************************************************************************)
(* Properties.                                                             *)
(***************************************************************************)

\* C1: key-order independence.  Whatever the insertion order of the members
\* of the objects inside an Object, at any depth, canonicalize returns the
\* same result under either flag, and semantic_hash the same hash.
C1_KeyOrderIndependence ==
    /\ (Called("canonicalize") /\ IsObj(data)) =>
          \A o2 \in KeyPerms(data) : canonicalize(o2, strict) = result
    /\ (Called("semantic_hash") /\ IsObj(data)) =>
          \A o2 \in KeyPerms(data) : semantic_hash(o2) = result

C1_Witness ==
    /\ Called("canonicalize")
    /\ data = NestedTestVector
    /\ strict
    /\ result.ok
    /\ Cardinality(KeyPerms(data)) > 6

\* C2: homogeneous-array order independence.  Whatever the order of the
\* elements of the arrays of one primitive variant inside an Object,
\* canonicalize returns the same result and semantic_hash the same hash.
C2_HomogeneousArrayOrderIndependence ==
    /\ (Called("canonicalize") /\ IsObj(data)) =>
          \A o2 \in ArrPerms(data) : canonicalize(o2, strict) = result
    /\ (Called("semantic_hash") /\ IsObj(data)) =>
          \A o2 \in ArrPerms(data) : semantic_hash(o2) = result

\* C3: a value that is no Object is an error under strict and is canonicalized
\* as the object {"value": v} otherwise; for an Object the flag does not
\* change a successful result.
C3_NonObjectInput ==
    Called("canonicalize") =>
        /\ (~IsObj(data) /\ strict) =>
              (~result.ok /\ result.kind = "CanonicalizationError")
        /\ (~IsObj(data) /\ ~strict) =>
              (result.ok /\ result = canonicalize(Wrapped(data), FALSE))
        /\ (IsObj(data) /\ result.ok) =>
              canonicalize(data, ~strict) = result

C3_Witness ==
    /\ Called("canonicalize")
    /\ data.t = "Array"
    /\ ~strict
    /\ result.ok
    /\ canonicalize(data, TRUE).ok = FALSE

\* C4: semantic_hash fails exactly when strict canonicalization fails, with
\* that error, also where lenient canonicalization succeeds; otherwise it
\* is the digest of the bytes of the strict canonical string.
C4_HashIsStrict ==
    Called("semantic_hash") =>
        LET c == canonicalize(data, TRUE)
        IN  /\ result.ok <=> c.ok
            /\ ~c.ok => result = c
            /\ c.ok => result.val = Sha256Hex(as_bytes(c.val))
            /\ ~IsObj(data) => (~result.ok /\ canonicalize(data, FALSE).ok)

C4_Witness ==
    /\ Called("semantic_hash")
    /\ ~IsObj(data)
    /\ ~result.ok
    /\ canonicalize(data, FALSE).ok

\* C5: verification.  An Object verifies against its own hash; it does not
\* verify against the hash of an Object with another strict canonical
\* string; and when hashing fails the call returns that error whatever the
\* expected hash.
C5_VerificationCorrectness ==
    Called("verify_semantic_hash") =>
        LET c == canonicalize(data, TRUE)
        IN  /\ (IsObj(data) /\ expected = semantic_hash(data).val) =>
                  result = Ok(TRUE)
            /\ \A w \in Companions(data) :
                  (/\ IsObj(data) /\ IsObj(w)
                   /\ expected = semantic_hash(w).val
                   /\ canonicalize(w, TRUE).val # c.val) => result = Ok(FALSE)
            /\ ~semantic_hash(data).ok =>
                  (~result.ok /\ result = c)

C5_Witness ==
    /\ Called("verify_semantic_hash")
    /\ IsObj(data)
    /\ expected = semantic_hash(mirrored(data)).val
    /\ result = Ok(FALSE)

\* C6: canonically_equal returns a boolean: TRUE exactly when both strict
\* canonicalizations succeed with the same string, FALSE when either fails,
\* also for a value that is no Object compared with itself.
C6_CanonicallyEqualTotal ==
    Called("canonically_equal") =>
        LET c1 == canonicalize(data, TRUE)
            c2 == canonicalize(other, TRUE)
        IN  /\ result \in BOOLEAN
            /\ result <=> (c1.ok /\ c2.ok /\ c1.val = c2.val)
            /\ (~IsObj(data) \/ ~IsObj(other)) => result = FALSE

C6_Witness ==
    /\ Called("canonically_equal")
    /\ ~IsObj(data)
    /\ other = data
    /\ result = FALSE

\* C7: idempotence.  The value parsed from a strict canonical string
\* canonicalizes to that string, and deep_sort of a deep-sorted value is
\* that value.
C7_Idempotence ==
    /\ Called("canonicalize") => deep_sort(deep_sort(data)) = deep_sort(data)
    /\ (Called("canonicalize") /\ strict /\ result.ok) =>
          /\ from_str(result.val).ok
          /\ canonicalize(from_str(result.val).val, TRUE) = result

C7_Witness ==
    /\ Called("canonicalize")
    /\ strict
    /\ result.ok
    /\ data = Object(<<Member(<<"b">>, ObjBA),
                       Member(<<"a">>, Array(<<Float(FALSE, 2), PosInt(1)>>))>>)
    /\ from_str(result.val).val # data

\* C8 as stated: deep_sort gives the reference order at every depth, and
\* reordering distinct elements of an array that keeps its order changes the
\* canonical string.
C8_Original ==
    /\ Called("canonicalize") => RefSorted(data, deep_sort(data))
    /\ (Called("canonicalize") /\ ~strict /\ data.t = "Array"
            /\ ~IsHomogeneous(data)) =>
          \A q \in PermSeqs(data.a) :
              (\E i \in 1..Len(q) : ~value_eq(q[i], data.a[i])) =>
                  canonicalize(Array(q), FALSE) # result

\* C8 amended: deep_sort gives the reference order at every depth: an Object
\* has the same keys in ascending byte order over deep-sorted values, an
\* array of one primitive variant is an ascending permutation of itself, any
\* other array keeps its order over deep-sorted elements, a primitive is
\* unchanged; and reordering an array that keeps its order changes the
\* canonical string when it changes the sequence of the canonical texts of
\* its elements.
C8_DeepSortIsReferenceOrder ==
    /\ Called("canonicalize") => RefSorted(data, deep_sort(data))
    /\ (Called("canonicalize") /\ ~strict /\ data.t = "Array"
            /\ ~IsHomogeneous(data)) =>
          \A q \in PermSeqs(data.a) :
              ElementTexts(q) # ElementTexts(data.a) =>
                  canonicalize(Array(q), FALSE) # result

C8_Witness ==
    /\ Called("canonicalize")
    /\ ~strict
    /\ data = Array(<<ObjBA, Array(<<PosInt(2), PosInt(1)>>)>>)
    /\ deep_sort(data) # data
    /\ result.ok

\* C9: ties of the sort are harmless.  Two elements of an array of one
\* primitive variant that the comparator of deep_sort reports Equal have the
\* same serialization.
C9_TiesHarmless ==
    (Called("canonicalize") /\ IsObj(data)) =>
        \A i \in 1..Len(data.m) :
            IsHomogeneous(data.m[i].v) =>
                \A x \in 1..Len(data.m[i].v.a), y \in 1..Len(data.m[i].v.a) :
                    sort_cmp(data.m[i].v.a[x], data.m[i].v.a[y]) = "Equal" =>
                        to_json(data.m[i].v.a[x]) = to_json(data.m[i].v.a[y])

\* C10: the fallback ends.  Under strict a failure of the serializer is an
\* error at once; otherwise one failure is answered by canonicalizing the
\* Object of the stringified members, and a second failure, on that Object,
\* by a CanonicalizationError.
C10_FallbackEndsWithError ==
    (Called("canonicalize") /\ IsObj(data) /\ fails >= 1) =>
        /\ strict => (~result.ok /\ result.kind = "CanonicalizationError")
        /\ (~strict /\ fails = 1) =>
              result = Ok(to_json(deep_sort(Object(stringify_members(data.m)))))
        /\ (~strict /\ fails >= 2) =>
              (~result.ok /\ result.kind = "CanonicalizationError")

====
